---- MODULE Spec2Model ----
(***************************************************************************)
(* Model of connectivity-exporter's packet package (packet/packet.go):     *)
(* the once-per-second aggregator TrackConnections with its folding rule   *)
(* accountForConnections, the SNI expiry, the stats slot reader            *)
(* getOldestStatsAndCleanup, the histogram task TrackExecutionTime and     *)
(* AsSet.  The in-kernel classifier (packet/c/cap.c) writes the shared     *)
(* tables; its source is not part of src/ and it is modelled from the      *)
(* written specification (sections 3, 4.2 and 4.3).                        *)
(***************************************************************************)
EXTENDS Integers, Sequences, FiniteSets, TLC

VARIABLES
    tickerClockMap,        \* s.ebpfConfig.tickerClockMap[0], shared with the classifier
    connectionMap,         \* s.ebpfConfig.connectionMap: tuple key -> tuple data
    statsMap,              \* s.ebpfConfig.statsMap: slot -> (inner key -> <<succeeded, failed>>)
    currentTickerClock,    \* TrackConnections' local clock (line 139)
    previousFailedSecond,  \* TrackConnections' carry-over map (line 143)
    snis,                  \* State.snis: SNI -> time
    pc,                    \* position of TrackConnections
    scanClock,             \* value of currentTickerClock the running tick was scanned at
    oldConnections,        \* local of the running tick (line 152)
    statsValuesAtKey,      \* local of the running tick (line 178)
    sniSet,                \* triples of the running tick still to be folded (line 212)
    emitted,               \* every Inc sent on incs so far, in order
    incsBuf,               \* Incs sent on incs and not yet received by the sink
    incsCloses,            \* number of close(incs) calls
    pcE,                   \* position of TrackExecutionTime
    snapBuf,               \* snapshots sent and not yet received
    snapCloses,            \* number of close(snapshots) calls
    tickA, tickE,          \* a tick is ready on the ticks channel of either task
    done,                  \* ctx.Done() is closed
    now,                   \* wall clock in seconds (time.Now())
    deletedLog,            \* connection entries TrackConnections deleted from connectionMap
    pktLeft, errLeft, ticksLeft,  \* what the environment may still do
    lateTick,              \* the tick that is ready was produced after ctx.Done() closed
    callArgs, callResult   \* the arguments and the result of a call of a pure function

vars == <<tickerClockMap, connectionMap, statsMap, currentTickerClock,
          previousFailedSecond, snis, pc, scanClock, oldConnections,
          statsValuesAtKey, sniSet, emitted, incsBuf, incsCloses, pcE, snapBuf,
          snapCloses, tickA, tickE, done, now, deletedLog, pktLeft, errLeft, ticksLeft, callArgs, callResult, lateTick>>

---------------------------------------------------------------------------
\* Bounds of the model.
MaxPackets == 3
MaxPacketClock == 2
MaxTime == 22
MaxErrors == 1
RingPutErrors == 19
ChanCap == 1
MaxStale == 2
MaxLen == 4
CarryPackets == 4
MaxCount == 2
\* metrics.Expiration, the configured SNI retention, in seconds.
Expiration == 1

\* C.STATS_SECONDS_COUNT, the length of the stats ring.
STATS_SECONDS_COUNT == 20

---------------------------------------------------------------------------
\* Data.

\* Two connections of one client to one service: 10.0.0.1 -> 10.0.0.2:443.
K1 == [source_ip |-> 16777226, dest_ip |-> 33554442, source_port |-> 40000, dest_port |-> 443]
K2 == [source_ip |-> 16777226, dest_ip |-> 33554442, source_port |-> 40001, dest_port |-> 443]
TupleKeys == {K1, K2}

Names == {"a"}

STATE_NEW == "NEW"
SYN_RECEIVED == "SYN_RECEIVED"
SYNACK_RECEIVED == "SYNACK_RECEIVED"
SNI_RECEIVED == "SNI_RECEIVED"
RST_SENT_BY_SERVER == "RST_SENT_BY_SERVER"
RST_SENT_BY_CLIENT == "RST_SENT_BY_CLIENT"
FIN_SENT == "FIN_SENT"

EmptyMap == [x \in {} |-> 0]

Restrict(f, S) == [x \in S |-> f[x]]

RECURSIVE SeqOf(_)
SeqOf(S) == IF S = {} THEN <<>> ELSE LET x == CHOOSE y \in S : TRUE IN <<x>> \o SeqOf(S \ {x})

\* The four bytes of a uint32 in host (little endian) order.
Bytes4(v) == [i \in 1..4 |-> (v \div (256 ^ (i - 1))) % 256]

\* net.IP.String() of a 4-byte address.
IPString(b) ==
    ToString(b[1]) \o "." \o ToString(b[2]) \o "." \o ToString(b[3]) \o "." \o ToString(b[4])

\* net.IP{}: an empty byte slice.
EmptyIP == <<>>

\* binary.LittleEndian.PutUint32(b, v): panics unless b holds 4 bytes.
PutUint32(b, v) ==
    IF Len(b) < 4
      THEN [panic |-> TRUE, bytes |-> b]
      ELSE [panic |-> FALSE,
            bytes |-> [i \in 1..Len(b) |-> IF i <= 4 THEN Bytes4(v)[i] ELSE b[i]]]

\* The ConnKey TrackConnections builds for an old connection (lines 188-192, 204-208).
TupleConnKey(k, v) ==
    LET s == PutUint32(EmptyIP, k.source_ip)
        d == PutUint32(EmptyIP, k.dest_ip)
    IN  IF s.panic \/ d.panic
          THEN [panic |-> TRUE, key |-> [sourceIP |-> "", destIP |-> "", sni |-> v.sni]]
          ELSE [panic |-> FALSE,
                key |-> [sourceIP |-> IPString(s.bytes), destIP |-> IPString(d.bytes),
                         sni |-> v.sni]]

\* The packed key of an inner stats map: src_ip(4) || dst_ip(4) || sni NUL ...
InnerKey(k, name) == [addr |-> Bytes4(k.source_ip) \o Bytes4(k.dest_ip), name |-> name]

\* The ConnKey getOldestStatsAndCleanup builds from an inner key (lines 273-277).
StatsConnKey(innerKey) ==
    [sourceIP |-> IPString(SubSeq(innerKey.addr, 1, 4)),
     destIP |-> IPString(SubSeq(innerKey.addr, 5, 8)),
     sni |-> innerKey.name]

\* An entry is taken for old one tick early.
isConnectionOldEarly(tickerClockFirstPacket, current_ticker_clock) ==
    current_ticker_clock >= STATS_SECONDS_COUNT + tickerClockFirstPacket

\* isConnectionOld (line 296).
isConnectionOld(tickerClockFirstPacket, current_ticker_clock) ==
    current_ticker_clock > STATS_SECONDS_COUNT + tickerClockFirstPacket

\* metrics.Inc as built at line 312.
NewInc(connKey) ==
    [SNI |-> connKey.sni, SourceIP |-> connKey.sourceIP, DestIP |-> connKey.destIP,
     SuccessfulConnections |-> 0, RejectedConnections |-> 0,
     RejectedConnectionsByClient |-> 0,
     ActiveSeconds |-> 0, ActiveFailedSeconds |-> 0, FailedSeconds |-> 0]

\* A count that takes every stale tuple for one of the state.
CountStateAny(staleConnMapInfo, st) == Len(staleConnMapInfo)

CountState(staleConnMapInfo, st) ==
    Cardinality({i \in 1..Len(staleConnMapInfo) : staleConnMapInfo[i].state = st})

\* Lines 309-311: the time is recorded only for an SNI that has no entry yet.
RecordSNI(s, name, t) ==
    IF name \in DOMAIN s THEN s ELSE [x \in DOMAIN s \cup {name} |-> IF x = name THEN t ELSE s[x]]

\* accountForConnections with a carry that an active second does not reset.
accountForConnectionsKeepCarry(s, t, connKey, prevFailedSecond, staleConnMapInfo, succeeded_connections, failed_connections) ==
    LET staleFailed == \E i \in 1..Len(staleConnMapInfo) :
                          staleConnMapInfo[i].state \in
                              {SYN_RECEIVED, SYNACK_RECEIVED, RST_SENT_BY_SERVER}
        activeSecond == Len(staleConnMapInfo) > 0 \/ succeeded_connections > 0
                           \/ failed_connections > 0
        activeFailedSecond == staleFailed \/ failed_connections > 0
        failedSecond == prevFailedSecond \/ activeFailedSecond
    IN  [inc |-> [NewInc(connKey) EXCEPT
                    !.SuccessfulConnections =
                        CountState(staleConnMapInfo, SNI_RECEIVED) + succeeded_connections,
                    !.RejectedConnections =
                        CountState(staleConnMapInfo, RST_SENT_BY_SERVER) + failed_connections,
                    !.RejectedConnectionsByClient =
                        CountState(staleConnMapInfo, RST_SENT_BY_CLIENT),
                    !.ActiveFailedSeconds = IF activeFailedSecond THEN 1 ELSE 0,
                    !.ActiveSeconds = IF activeSecond THEN 1 ELSE 0,
                    !.FailedSeconds = IF failedSecond THEN 1 ELSE 0],
         failedSecond |-> failedSecond,
         snis |-> RecordSNI(s, connKey.sni, t)]

\* State.accountForConnections (lines 300-367): the Inc, the failed-second flag
\* and State.snis after the call.
accountForConnections(s, t, connKey, prevFailedSecond, staleConnMapInfo, succeeded_connections, failed_connections) ==
    LET staleFailed == \E i \in 1..Len(staleConnMapInfo) :
                          staleConnMapInfo[i].state \in
                              {SYN_RECEIVED, SYNACK_RECEIVED, RST_SENT_BY_SERVER}
        activeSecond == Len(staleConnMapInfo) > 0 \/ succeeded_connections > 0
                           \/ failed_connections > 0
        activeFailedSecond == staleFailed \/ failed_connections > 0
        failedSecond == (prevFailedSecond /\ ~activeSecond) \/ activeFailedSecond
    IN  [inc |-> [NewInc(connKey) EXCEPT
                    !.SuccessfulConnections =
                        CountState(staleConnMapInfo, SNI_RECEIVED) + succeeded_connections,
                    !.RejectedConnections =
                        CountState(staleConnMapInfo, RST_SENT_BY_SERVER) + failed_connections,
                    !.RejectedConnectionsByClient =
                        CountState(staleConnMapInfo, RST_SENT_BY_CLIENT),
                    !.ActiveFailedSeconds = IF activeFailedSecond THEN 1 ELSE 0,
                    !.ActiveSeconds = IF activeSecond THEN 1 ELSE 0,
                    !.FailedSeconds = IF failedSecond THEN 1 ELSE 0],
         failedSecond |-> failedSecond,
         snis |-> RecordSNI(s, connKey.sni, t)]

\* State.deleteExpiredSNIs (lines 241-249): the entries that stay.
deleteExpiredSNIs(s, t) ==
    Restrict(s, {name \in DOMAIN s : ~(s[name] + Expiration < t)})

---------------------------------------------------------------------------
\* The process is alive until TrackConnections panics (an unrecovered panic
\* ends the program).
Alive == pc # "panicked"

---------------------------------------------------------------------------
\* The classifier (specification 4.2, 4.3).

PacketKinds == {"SYN", "SYNACK", "HELLO", "RST_SERVER", "RST_CLIENT", "FIN"}

Terminal == {RST_SENT_BY_SERVER, RST_SENT_BY_CLIENT, FIN_SENT}

\* The clock values a packet handler may observe: T, or T-1 around an update.
ObservableClocks == {tickerClockMap} \cup (IF tickerClockMap > 0 THEN {tickerClockMap - 1} ELSE {})

\* Step 4: look up or create the tuple entry.
LookupOrCreate(k, c) ==
    IF k \in DOMAIN connectionMap
      THEN connectionMap[k]
      ELSE [state |-> STATE_NEW, sni |-> "", tickerClockFirstPacket |-> c]

\* Step 5: the tuple entry after a packet of the given kind.
Advance(e, kind, name) ==
    CASE kind = "SYN" /\ e.state = STATE_NEW -> [e EXCEPT !.state = SYN_RECEIVED]
      [] kind = "SYNACK" /\ e.state \in {STATE_NEW, SYN_RECEIVED} ->
             [e EXCEPT !.state = SYNACK_RECEIVED]
      [] kind = "HELLO" /\ e.state \in {STATE_NEW, SYN_RECEIVED, SYNACK_RECEIVED} /\ e.sni = "" ->
             [e EXCEPT !.state = SNI_RECEIVED, !.sni = name]
      [] kind = "RST_SERVER" -> [e EXCEPT !.state = RST_SENT_BY_SERVER]
      [] kind = "RST_CLIENT" -> [e EXCEPT !.state = RST_SENT_BY_CLIENT]
      [] kind = "FIN" /\ e.state = SNI_RECEIVED -> [e EXCEPT !.state = FIN_SENT]
      [] OTHER -> e

\* Step 5: the "completed" event a packet adds to the stats slot c mod 20:
\* <<succeeded, failed>> increments.
Completed(e, kind) ==
    CASE kind = "RST_SERVER" -> <<0, 1>>
      [] kind = "FIN" /\ e.state = SNI_RECEIVED -> <<1, 0>>
      [] OTHER -> <<0, 0>>

AddStats(stats, slot, ik, d) ==
    IF d = <<0, 0>> THEN stats
    ELSE LET m == stats[slot]
             old == IF ik \in DOMAIN m THEN m[ik] ELSE <<0, 0>>
         IN  [stats EXCEPT ![slot] =
                 [x \in DOMAIN m \cup {ik} |->
                     IF x = ik THEN <<old[1] + d[1], old[2] + d[2]>> ELSE m[x]]]

ClassifierPacket(k, kind, name, c) ==
    /\ Alive
    /\ pktLeft > 0
    /\ tickerClockMap <= MaxPacketClock
    /\ c \in ObservableClocks
    /\ LET e == LookupOrCreate(k, c)
           e2 == Advance(e, kind, name)
       IN  /\ e.state \notin Terminal
           /\ e2 # e \/ k \notin DOMAIN connectionMap
           /\ connectionMap' = [x \in DOMAIN connectionMap \cup {k} |->
                                   IF x = k THEN e2 ELSE connectionMap[x]]
           /\ statsMap' = AddStats(statsMap, c % STATS_SECONDS_COUNT,
                                   InnerKey(k, e.sni), Completed(e, kind))
    /\ pktLeft' = pktLeft - 1
    /\ UNCHANGED <<tickerClockMap, currentTickerClock, previousFailedSecond, snis, pc,
                   scanClock, oldConnections, statsValuesAtKey, sniSet, emitted, incsBuf,
                   incsCloses, pcE, snapBuf, snapCloses, tickA, tickE, done, now,
                   deletedLog, errLeft, ticksLeft, callArgs, callResult, lateTick>>

---------------------------------------------------------------------------
\* TrackConnections (lines 134-239).

\* getOldestStatsAndCleanup (lines 261-293): the possible outcomes, each with
\* the stats map it leaves.  mayFail: the environment may still fail a map call.
getOldestStatsAndCleanup(stats, statsKey, mayFail) ==
    LET innerMap == stats[statsKey]
        ok == [err |-> FALSE,
               out |-> [ck \in {StatsConnKey(ik) : ik \in DOMAIN innerMap} |->
                           innerMap[CHOOSE ik \in DOMAIN innerMap : StatsConnKey(ik) = ck]],
               stats |-> [stats EXCEPT ![statsKey] = EmptyMap]]
        \* Lookup fails (line 264), or the iteration fails after the keys in D
        \* were read: those are deleted (lines 283-286) before Err is checked.
        failed == {[err |-> TRUE, out |-> EmptyMap,
                    stats |-> [stats EXCEPT ![statsKey] =
                                  Restrict(innerMap, DOMAIN innerMap \ D)]] :
                   D \in SUBSET DOMAIN innerMap}
    IN  {ok} \cup (IF mayFail THEN failed ELSE {})

\* Lines 153-161: the entries of the connection table that are old.
ScanOld(connections, clock) ==
    Restrict(connections,
             {k \in DOMAIN connections :
                isConnectionOld(connections[k].tickerClockFirstPacket, clock)})

\* Lines 148-210: a tick is received; the connection table is scanned, the
\* old connections are deleted, the oldest stats slot is read and emptied and
\* the union of the triples of both is built.  A failed map call abandons the
\* tick (continue); building the ConnKey of an old connection may panic.
AggGather ==
    /\ pc = "select" /\ tickA
    /\ tickA' = FALSE
    /\ \/ /\ errLeft > 0             \* connections.Err() # nil (line 163)
          /\ errLeft' = errLeft - 1
          /\ UNCHANGED <<connectionMap, deletedLog, statsMap, pc, scanClock,
                         oldConnections, statsValuesAtKey, sniSet>>
       \/ LET old == ScanOld(connectionMap, currentTickerClock)
          IN  /\ connectionMap' = Restrict(connectionMap, DOMAIN connectionMap \ DOMAIN old)
              /\ deletedLog' = deletedLog \cup
                    {[key |-> k, first |-> old[k].tickerClockFirstPacket,
                      state |-> old[k].state, sni |-> old[k].sni,
                      clock |-> currentTickerClock] : k \in DOMAIN old}
              /\ \E r \in getOldestStatsAndCleanup(statsMap, (currentTickerClock + 1) % 20,
                                                   errLeft > 0) :
                    /\ statsMap' = r.stats
                    /\ IF r.err
                         THEN /\ pc' = "select"      \* line 181
                              /\ errLeft' = errLeft - 1
                              /\ UNCHANGED <<scanClock, oldConnections, statsValuesAtKey,
                                             sniSet>>
                         ELSE /\ scanClock' = currentTickerClock
                              /\ oldConnections' = old
                              /\ statsValuesAtKey' = r.out
                              /\ UNCHANGED errLeft
                              /\ IF \E k \in DOMAIN old : TupleConnKey(k, old[k]).panic
                                   THEN /\ pc' = "panicked"
                                        /\ UNCHANGED sniSet
                                   ELSE /\ pc' = "emit"
                                        /\ sniSet' = {TupleConnKey(k, old[k]).key :
                                                         k \in DOMAIN old}
                                                     \cup DOMAIN r.out
    /\ UNCHANGED <<tickerClockMap, currentTickerClock, previousFailedSecond, snis, emitted,
                   incsBuf, incsCloses, pcE, snapBuf, snapCloses, tickE, done, now,
                   pktLeft, ticksLeft, callArgs, callResult, lateTick>>

\* staleConnections[sni] (lines 198-210): the keys of the old connections of a triple.
staleConnections(sni) ==
    {k \in DOMAIN oldConnections : TupleConnKey(k, oldConnections[k]).key = sni}

\* Lines 212-225: one iteration of the loop over sniSet: fold and send.
AggEmit ==
    /\ pc = "emit" /\ sniSet # {}
    /\ incsBuf < ChanCap
    /\ \E sni \in sniSet :
         LET completedConnections ==
                 IF sni \in DOMAIN statsValuesAtKey THEN statsValuesAtKey[sni] ELSE <<0, 0>>
             prev == IF sni \in DOMAIN previousFailedSecond
                       THEN previousFailedSecond[sni] ELSE FALSE
             keys == SeqOf(staleConnections(sni))
             stale == [i \in 1..Len(keys) |-> oldConnections[keys[i]]]
             r == accountForConnections(snis, now, sni, prev, stale,
                                        completedConnections[1], completedConnections[2])
         IN  /\ snis' = r.snis
             /\ previousFailedSecond' =
                   [x \in DOMAIN previousFailedSecond \cup {sni} |->
                       IF x = sni THEN r.failedSecond ELSE previousFailedSecond[x]]
             /\ emitted' = Append(emitted,
                   [inc |-> r.inc, clock |-> scanClock, time |-> now, seen |-> tickerClockMap,
                    stale |-> {[key |-> k, first |-> oldConnections[k].tickerClockFirstPacket] :
                                  k \in staleConnections(sni)}])
             /\ sniSet' = sniSet \ {sni}
    /\ incsBuf' = incsBuf + 1
    /\ UNCHANGED <<tickerClockMap, connectionMap, statsMap, currentTickerClock, pc,
                   scanClock, oldConnections, statsValuesAtKey, incsCloses, pcE, snapBuf,
                   snapCloses, tickA, tickE, done, now, deletedLog, pktLeft, errLeft, ticksLeft, callArgs, callResult, lateTick>>

\* The clock is advanced while Incs of the tick are still to be sent.
LoopDoneEarly == TRUE

\* Line 212: the loop over sniSet has ended.
LoopDone == sniSet = {}

\* Lines 227-234: expire SNIs, advance the local clock and write it to the table.
AggFinish ==
    /\ pc = "emit" /\ LoopDone
    /\ snis' = deleteExpiredSNIs(snis, now)
    /\ currentTickerClock' = currentTickerClock + 1
    /\ \/ /\ tickerClockMap' = currentTickerClock + 1
          /\ UNCHANGED errLeft
       \/ /\ errLeft > 0                \* tickerClockMap.Put fails: continue
          /\ errLeft' = errLeft - 1
          /\ UNCHANGED tickerClockMap
    /\ pc' = "select"
    /\ oldConnections' = EmptyMap
    /\ statsValuesAtKey' = EmptyMap
    /\ UNCHANGED <<connectionMap, statsMap, previousFailedSecond, scanClock, sniSet,
                   emitted, incsBuf, incsCloses, pcE, snapBuf, snapCloses, tickA, tickE,
                   done, now, deletedLog, pktLeft, ticksLeft, callArgs, callResult, lateTick>>

\* Lines 235-236: the select takes <-done and the function returns.
AggDone ==
    /\ pc = "select" /\ done
    /\ pc' = "returned"
    /\ UNCHANGED <<tickerClockMap, connectionMap, statsMap, currentTickerClock,
                   previousFailedSecond, snis, scanClock, oldConnections,
                   statsValuesAtKey, sniSet, emitted, incsBuf, incsCloses, pcE, snapBuf,
                   snapCloses, tickA, tickE, done, now, deletedLog, pktLeft, errLeft, ticksLeft, callArgs, callResult, lateTick>>

---------------------------------------------------------------------------
\* TrackExecutionTime (lines 98-110).

\* Line 104: the select takes a tick.
ExecTick ==
    /\ Alive /\ pcE = "select" /\ tickE
    /\ tickE' = FALSE
    /\ pcE' = "send"
    /\ UNCHANGED <<tickerClockMap, connectionMap, statsMap, currentTickerClock,
                   previousFailedSecond, snis, pc, scanClock, oldConnections,
                   statsValuesAtKey, sniSet, emitted, incsBuf, incsCloses, snapBuf,
                   snapCloses, tickA, done, now, deletedLog, pktLeft, errLeft, ticksLeft, callArgs, callResult, lateTick>>

\* Line 105: the snapshot is sent.
ExecSend ==
    /\ Alive /\ pcE = "send"
    /\ snapBuf < ChanCap
    /\ snapBuf' = snapBuf + 1
    /\ pcE' = "select"
    /\ UNCHANGED <<tickerClockMap, connectionMap, statsMap, currentTickerClock,
                   previousFailedSecond, snis, pc, scanClock, oldConnections,
                   statsValuesAtKey, sniSet, emitted, incsBuf, incsCloses, snapCloses,
                   tickA, tickE, done, now, deletedLog, pktLeft, errLeft, ticksLeft, callArgs, callResult, lateTick>>

\* Lines 106-107 and the deferred close(snapshots) of line 100.
ExecDone ==
    /\ Alive /\ pcE = "select" /\ done
    /\ pcE' = "returned"
    /\ snapCloses' = snapCloses + 1
    /\ UNCHANGED <<tickerClockMap, connectionMap, statsMap, currentTickerClock,
                   previousFailedSecond, snis, pc, scanClock, oldConnections,
                   statsValuesAtKey, sniSet, emitted, incsBuf, incsCloses, snapBuf,
                   tickA, tickE, done, now, deletedLog, pktLeft, errLeft, ticksLeft, callArgs, callResult, lateTick>>

---------------------------------------------------------------------------
\* The environment: the metrics sink, the ticker and the shutdown signal.

SinkRecvInc ==
    /\ Alive /\ incsBuf > 0
    /\ incsBuf' = incsBuf - 1
    /\ UNCHANGED <<tickerClockMap, connectionMap, statsMap, currentTickerClock,
                   previousFailedSecond, snis, pc, scanClock, oldConnections,
                   statsValuesAtKey, sniSet, emitted, incsCloses, pcE, snapBuf,
                   snapCloses, tickA, tickE, done, now, deletedLog, pktLeft, errLeft, ticksLeft, callArgs, callResult, lateTick>>

SinkRecvSnapshot ==
    /\ Alive /\ snapBuf > 0
    /\ snapBuf' = snapBuf - 1
    /\ UNCHANGED <<tickerClockMap, connectionMap, statsMap, currentTickerClock,
                   previousFailedSecond, snis, pc, scanClock, oldConnections,
                   statsValuesAtKey, sniSet, emitted, incsBuf, incsCloses, pcE,
                   snapCloses, tickA, tickE, done, now, deletedLog, pktLeft, errLeft, ticksLeft, callArgs, callResult, lateTick>>

\* One second passes and a tick is ready for both tasks.  The aggregator
\* handles a tick within the second: the next one comes while it waits.
TickSource ==
    /\ pc = "select" /\ ~tickA
    /\ ticksLeft > 0
    /\ ticksLeft' = ticksLeft - 1
    /\ now' = now + 1
    /\ tickA' = TRUE
    /\ tickE' = TRUE
    /\ lateTick' = done
    /\ UNCHANGED <<tickerClockMap, connectionMap, statsMap, currentTickerClock,
                   previousFailedSecond, snis, pc, scanClock, oldConnections,
                   statsValuesAtKey, sniSet, emitted, incsBuf, incsCloses, pcE, snapBuf,
                   snapCloses, done, deletedLog, pktLeft, errLeft, callArgs, callResult>>

Shutdown ==
    /\ Alive /\ ~done
    /\ done' = TRUE
    /\ UNCHANGED <<tickerClockMap, connectionMap, statsMap, currentTickerClock,
                   previousFailedSecond, snis, pc, scanClock, oldConnections,
                   statsValuesAtKey, sniSet, emitted, incsBuf, incsCloses, pcE, snapBuf,
                   snapCloses, tickA, tickE, now, deletedLog, pktLeft, errLeft, ticksLeft, callArgs, callResult, lateTick>>

---------------------------------------------------------------------------

InitWith(packets, errors, ticks, args) ==
    /\ tickerClockMap = 0
    /\ connectionMap = EmptyMap
    /\ statsMap = [i \in 0..(STATS_SECONDS_COUNT - 1) |-> EmptyMap]
    /\ currentTickerClock = 0
    /\ previousFailedSecond = EmptyMap
    /\ snis = EmptyMap
    /\ pc = "select"
    /\ scanClock = 0
    /\ oldConnections = EmptyMap
    /\ statsValuesAtKey = EmptyMap
    /\ sniSet = {}
    /\ emitted = <<>>
    /\ incsBuf = 0
    /\ incsCloses = 0
    /\ pcE = "select"
    /\ snapBuf = 0
    /\ snapCloses = 0
    /\ tickA = FALSE
    /\ tickE = FALSE
    /\ done = FALSE
    /\ now = 0
    /\ deletedLog = {}
    /\ pktLeft = packets
    /\ errLeft = errors
    /\ ticksLeft = ticks
    /\ lateTick = FALSE
    /\ callArgs \in args
    /\ callResult = <<>>

NoCall == {<<>>}

Init == InitWith(MaxPackets, MaxErrors, MaxTime, NoCall)

\* K1 and K2 differ only in the client's port, which nothing reads: the first
\* connection seen is taken to be K1.
Classifier ==
    \E k \in TupleKeys, kind \in PacketKinds, name \in Names, c \in 0..(MaxPacketClock + 1) :
        /\ k = K2 => (K1 \in DOMAIN connectionMap \/ \E d \in deletedLog : d.key = K1)
        /\ ClassifierPacket(k, kind, name, c)

\* The aggregator with the classifier, the ticker and the sink of incs.  The
\* histogram task shares no state with it and a shutdown only ends its run at
\* the select, so every state the aggregator reaches in the whole program
\* is reached here.
Next ==
    \/ Classifier
    \/ AggGather
    \/ AggEmit
    \/ AggFinish
    \/ SinkRecvInc
    \/ TickSource

Spec == Init /\ [][Next]_vars

\* The whole program: both tasks, the shutdown signal and both sinks.
NextAll ==
    \/ Next
    \/ AggDone
    \/ ExecTick
    \/ ExecSend
    \/ ExecDone
    \/ SinkRecvSnapshot
    \/ Shutdown

\* The ring under repeated failures of tickerClockMap.Put.
InitRing == InitWith(1, RingPutErrors, MaxTime, NoCall)
SpecRing == InitRing /\ [][Next]_vars

\* Two connections of one triple, one rejected and one closed, without map errors.
InitCarry == InitWith(CarryPackets, 0, MaxTime, NoCall)
SpecCarry == InitCarry /\ [][Next]_vars

\* The whole program around a shutdown.
InitShutdown == InitWith(1, 0, MaxTime, NoCall)
SpecShutdown == InitShutdown /\ [][NextAll]_vars

\* A step of either task.  Each task runs in a goroutine of its own, which the
\* scheduler runs whenever it can take a step; the ticker, the shutdown signal
\* and the metrics sink are the environment and need not act.
TaskFairness ==
    /\ WF_vars(AggGather) /\ WF_vars(AggEmit) /\ WF_vars(AggFinish) /\ WF_vars(AggDone)
    /\ WF_vars(ExecTick) /\ WF_vars(ExecSend) /\ WF_vars(ExecDone)

SpecShutdownFair == InitShutdown /\ [][NextAll]_vars /\ TaskFairness

---------------------------------------------------------------------------
\* accountForConnections on its own: every call with at most MaxStale stale
\* tuples and stats counters up to MaxCount.

TupleStates == {STATE_NEW, SYN_RECEIVED, SYNACK_RECEIVED, SNI_RECEIVED, RST_SENT_BY_SERVER, RST_SENT_BY_CLIENT, FIN_SENT}

SeqsUpTo(S, n) == UNION {[1..m -> S] : m \in 0..n}

FoldKey == [sourceIP |-> IPString(Bytes4(K1.source_ip)), destIP |-> IPString(Bytes4(K1.dest_ip)), sni |-> "a"]

FoldArgs ==
    [previousFailedSecond : BOOLEAN,
     staleConnMapInfo : SeqsUpTo([state : TupleStates, sni : {"a"}, tickerClockFirstPacket : {0}], MaxStale),
     succeeded_connections : 0..MaxCount,
     failed_connections : 0..MaxCount]

CallAccountForConnections ==
    /\ callArgs \in FoldArgs
    /\ callResult = <<>>
    /\ callResult' = accountForConnections(snis, now, FoldKey, callArgs.previousFailedSecond,
                                           callArgs.staleConnMapInfo,
                                           callArgs.succeeded_connections,
                                           callArgs.failed_connections)
    /\ UNCHANGED <<tickerClockMap, connectionMap, statsMap, currentTickerClock,
                   previousFailedSecond, snis, pc, scanClock, oldConnections,
                   statsValuesAtKey, sniSet, emitted, incsBuf, incsCloses, pcE, snapBuf,
                   snapCloses, tickA, tickE, done, now, deletedLog, pktLeft, errLeft,
                   ticksLeft, callArgs, lateTick>>

InitFold == InitWith(0, 0, 0, FoldArgs)
NextFold == CallAccountForConnections
SpecFold == InitFold /\ [][NextFold]_vars

---------------------------------------------------------------------------
\* AsSet (lines 120-128).  A string is the sequence of its characters.

Chars == {"a", "b", ","}

Strings == SeqsUpTo(Chars, MaxLen)

\* strings.Index(s, ","): the position of the first comma, 0 if there is none.
IndexComma(s) ==
    IF \E i \in DOMAIN s : s[i] = ","
      THEN CHOOSE i \in DOMAIN s : s[i] = "," /\ \A j \in 1..(i - 1) : s[j] # ","
      ELSE 0

\* A split that skips empty fields.
RECURSIVE SplitDropEmpty(_)
SplitDropEmpty(s) ==
    LET m == IndexComma(s)
        head == IF m = 0 THEN s ELSE SubSeq(s, 1, m - 1)
        rest == IF m = 0 THEN <<>> ELSE SplitDropEmpty(SubSeq(s, m + 1, Len(s)))
    IN  (IF head = <<>> THEN <<>> ELSE <<head>>) \o rest

\* strings.Split(s, ","): the fields in order; the last field is what is left
\* after the last comma, the whole string if there is no comma.
RECURSIVE Split(_)
Split(s) ==
    LET m == IndexComma(s)
    IN  IF m = 0 THEN <<s>> ELSE <<SubSeq(s, 1, m - 1)>> \o Split(SubSeq(s, m + 1, Len(s)))

\* AsSet: the keys of the map r after the loop of lines 124-126.
AsSet(list) == {Split(list)[i] : i \in DOMAIN Split(list)}

CallAsSet ==
    /\ callArgs \in [list : Strings]
    /\ callResult = <<>>
    /\ callResult' = [r |-> AsSet(callArgs.list)]
    /\ UNCHANGED <<tickerClockMap, connectionMap, statsMap, currentTickerClock,
                   previousFailedSecond, snis, pc, scanClock, oldConnections,
                   statsValuesAtKey, sniSet, emitted, incsBuf, incsCloses, pcE, snapBuf,
                   snapCloses, tickA, tickE, done, now, deletedLog, pktLeft, errLeft,
                   ticksLeft, callArgs, lateTick>>

InitAsSet == InitWith(0, 0, 0, [list : Strings])
NextAsSet == CallAsSet
SpecAsSet == InitAsSet /\ [][NextAsSet]_vars

---------------------------------------------------------------------------
\* Claims.

Between == pc \in {"select", "panicked"}

\* C1: once a triple k had a failed second, every later tick that completes
\* with no old connection and no stats entry of k, while k's SNI is not
\* expired, sends an Inc of k with failed_seconds = 1 and active_seconds = 0,
\* and previous_failed_second[k] stays true.
C1_CarryOverEmitted ==
    [][(pc = "emit" /\ pc' = "select") =>
          \A k \in DOMAIN previousFailedSecond :
             (/\ previousFailedSecond[k]
              /\ k \notin DOMAIN statsValuesAtKey
              /\ staleConnections(k) = {}
              /\ k.sni \in DOMAIN snis)
             => /\ \E i \in DOMAIN emitted :
                      /\ emitted[i].clock = scanClock /\ emitted[i].time = now
                      /\ emitted[i].inc.SNI = k.sni
                      /\ emitted[i].inc.SourceIP = k.sourceIP
                      /\ emitted[i].inc.DestIP = k.destIP
                      /\ emitted[i].inc.FailedSeconds = 1
                      /\ emitted[i].inc.ActiveSeconds = 0
                /\ previousFailedSecond'[k]]_vars

\* C2: between ticks, every connection entry the aggregator deleted is in the
\* stale tuples of exactly one sent Inc.
C2_DeletedAccountedOnce ==
    Between =>
       \A d \in deletedLog :
          Cardinality({i \in DOMAIN emitted :
                          [key |-> d.key, first |-> d.first] \in emitted[i].stale}) = 1

RECURSIVE SumOf(_, _)
SumOf(incs, field) ==
    IF incs = <<>> THEN 0 ELSE Head(incs).inc[field] + SumOf(Tail(incs), field)

Drained ==
    /\ Between
    /\ connectionMap = EmptyMap
    /\ \A i \in DOMAIN statsMap : statsMap[i] = EmptyMap

\* C3: with no map error, once every connection is drained and every stats slot consumed, each
\* connection the server rejected counts once in `rejected` and each cleanly
\* closed connection once in `successful`, over all Incs.
C3_OneIncrementPerConnection ==
    (Drained /\ errLeft = MaxErrors /\ \A d \in deletedLog : d.state \in {RST_SENT_BY_SERVER, FIN_SENT})
    => /\ SumOf(emitted, "RejectedConnections") =
              Cardinality({d \in deletedLog : d.state = RST_SENT_BY_SERVER})
       /\ SumOf(emitted, "SuccessfulConnections") =
              Cardinality({d \in deletedLog : d.state = FIN_SENT})

\* C4: every fold of an SNI records the current time in snis, and an SNI is
\* removed only if no Inc of it was sent within the retention window.
C4_ExpiryByLastActivity ==
    [][/\ (emitted' # emitted =>
             LET e == emitted'[Len(emitted')] IN snis'[e.inc.SNI] = e.time)
       /\ \A name \in DOMAIN snis \ DOMAIN snis' :
             \A i \in DOMAIN emitted :
                emitted[i].inc.SNI = name => emitted[i].time + Expiration < now]_vars

\* C5: between ticks the ticker-clock table holds the aggregator's own clock.
C5_TableEqualsLocalClock ==
    pc = "select" => tickerClockMap = currentTickerClock

C7_SlotExclusive ==
    \A c \in ObservableClocks :
       (currentTickerClock + 1) % STATS_SECONDS_COUNT # c % STATS_SECONDS_COUNT

AbandonedTick == pc = "select" /\ tickA /\ ~tickA' /\ pc' = "select"

\* C8: a tick abandoned on a map error sends nothing and changes neither the
\* clock, the carry-over state, the connection table nor the stats ring.
C8_AbandonedTickChangesNothing ==
    [][AbandonedTick =>
          UNCHANGED <<emitted, currentTickerClock, tickerClockMap, previousFailedSecond,
                      snis, connectionMap, statsMap>>]_vars

\* C9: after the shutdown, when both tasks have returned, each output channel
\* has been closed exactly once.
C9_BothChannelsClosed ==
    (done /\ pc = "returned" /\ pcE = "returned") => (incsCloses = 1 /\ snapCloses = 1)

\* C10: with no map error, a connection that only saw a SYN is drained by the
\* tick at clock first + 21; that tick completes and sends exactly one Inc for
\* it: its addresses, an empty SNI, the three second flags 1, no counter.
C10_StalledHandshake ==
    (Between /\ errLeft = MaxErrors)
    => \A d \in deletedLog :
          (d.state = SYN_RECEIVED /\ d.sni = "")
          => /\ pc = "select"
             /\ d.clock = d.first + STATS_SECONDS_COUNT + 1
             /\ currentTickerClock > d.clock
             /\ Cardinality({i \in DOMAIN emitted :
                   /\ emitted[i].clock = d.clock
                   /\ [key |-> d.key, first |-> d.first] \in emitted[i].stale}) = 1
             /\ \A i \in DOMAIN emitted :
                   (emitted[i].clock = d.clock
                      /\ [key |-> d.key, first |-> d.first] \in emitted[i].stale)
                   => emitted[i].inc =
                         [SNI |-> "", SourceIP |-> IPString(Bytes4(d.key.source_ip)),
                          DestIP |-> IPString(Bytes4(d.key.dest_ip)),
                          SuccessfulConnections |-> 0, RejectedConnections |-> 0,
                          RejectedConnectionsByClient |-> 0, ActiveSeconds |-> 1,
                          ActiveFailedSeconds |-> 1, FailedSeconds |-> 1]

\* The (src_ip, dst_ip, sni) triple of a connection entry and of an Inc.
TripleOf(k, v) ==
    [sourceIP |-> IPString(Bytes4(k.source_ip)), destIP |-> IPString(Bytes4(k.dest_ip)),
     sni |-> v.sni]

IncTriple(inc) == [sourceIP |-> inc.SourceIP, destIP |-> inc.DestIP, sni |-> inc.SNI]

\* The triples observed by the running tick and the Incs it has sent.
TickTriples ==
    {TripleOf(k, oldConnections[k]) : k \in DOMAIN oldConnections} \cup DOMAIN statsValuesAtKey

TickIncs == {i \in DOMAIN emitted : emitted[i].clock = scanClock /\ emitted[i].time = now}

\* The tick has read both tables without error and its loop has ended.
TickOver == pc = "panicked" \/ (pc = "emit" /\ LoopDone)

\* C11: when a tick that read both tables is over, it has sent exactly one Inc
\* for each triple of its old connections and of the consumed stats slot, and
\* no Inc for any other triple.
C11_OneIncPerTriple ==
    TickOver =>
       /\ \A t \in TickTriples :
             Cardinality({i \in TickIncs : IncTriple(emitted[i].inc) = t}) = 1
       /\ \A i \in TickIncs : IncTriple(emitted[i].inc) \in TickTriples

Folded == callArgs \in FoldArgs /\ callResult # <<>>

Flag(b) == IF b THEN 1 ELSE 0

\* C12: accountForConnections yields active = (stale tuples non-empty or
\* succ > 0 or fail > 0), active_failed = (a stale tuple is SYN_RECEIVED,
\* SYNACK_RECEIVED or RST_SENT_BY_SERVER, or fail > 0), failed_second =
\* (prev_failed and not active) or active_failed; the three second fields of
\* the Inc are these booleans as 0 or 1 and the returned flag is failed_second.
C12_SecondIndicators ==
    Folded =>
       LET stale == callArgs.staleConnMapInfo
           active == \/ stale # <<>>
                     \/ callArgs.succeeded_connections > 0
                     \/ callArgs.failed_connections > 0
           active_failed ==
               \/ \E i \in DOMAIN stale :
                     stale[i].state \in {SYN_RECEIVED, SYNACK_RECEIVED, RST_SENT_BY_SERVER}
               \/ callArgs.failed_connections > 0
           failed_second == (callArgs.previousFailedSecond /\ ~active) \/ active_failed
       IN  /\ callResult.inc.ActiveSeconds = Flag(active)
           /\ callResult.inc.ActiveFailedSeconds = Flag(active_failed)
           /\ callResult.inc.FailedSeconds = Flag(failed_second)
           /\ callResult.failedSecond = failed_second

\* C12 witness: a carried failure meets an active second without a failure.
C12_Witness ==
    /\ Folded
    /\ callArgs.previousFailedSecond
    /\ Len(callArgs.staleConnMapInfo) = 1
    /\ callArgs.staleConnMapInfo[1].state = FIN_SENT
    /\ callArgs.failed_connections = 0
    /\ callResult.inc.ActiveSeconds = 1
    /\ callResult.inc.FailedSeconds = 0
    /\ ~callResult.failedSecond

RECURSIVE Occurrences(_, _)
Occurrences(seq, st) ==
    IF seq = <<>> THEN 0
    ELSE (IF Head(seq).state = st THEN 1 ELSE 0) + Occurrences(Tail(seq), st)

\* C13: the Inc of accountForConnections has successful = (stale tuples in
\* SNI_RECEIVED) + succ, rejected = (stale tuples in RST_SENT_BY_SERVER) +
\* fail, rejected_by_client = (stale tuples in RST_SENT_BY_CLIENT); stale
\* tuples in FIN_SENT or NEW add to no counter and set no failure flag.
C13_ConnectionCounters ==
    Folded =>
       LET stale == callArgs.staleConnMapInfo
           inc == callResult.inc
       IN  /\ inc.SuccessfulConnections =
                 Occurrences(stale, SNI_RECEIVED) + callArgs.succeeded_connections
           /\ inc.RejectedConnections =
                 Occurrences(stale, RST_SENT_BY_SERVER) + callArgs.failed_connections
           /\ inc.RejectedConnectionsByClient = Occurrences(stale, RST_SENT_BY_CLIENT)
           /\ (\A i \in DOMAIN stale : stale[i].state \in {FIN_SENT, STATE_NEW})
              => /\ inc.SuccessfulConnections = callArgs.succeeded_connections
                 /\ inc.RejectedConnections = callArgs.failed_connections
                 /\ inc.RejectedConnectionsByClient = 0
                 /\ inc.ActiveFailedSeconds = Flag(callArgs.failed_connections > 0)
                 /\ (stale # <<>> => inc.ActiveSeconds = 1)

\* C13 witness: two stale tuples, one counted and one in FIN_SENT, with stats.
C13_Witness ==
    /\ Folded
    /\ Len(callArgs.staleConnMapInfo) = 2
    /\ callArgs.staleConnMapInfo[1].state = SNI_RECEIVED
    /\ callArgs.staleConnMapInfo[2].state = FIN_SENT
    /\ callArgs.succeeded_connections = 1
    /\ callResult.inc.SuccessfulConnections = 2
    /\ callResult.inc.RejectedConnections = callArgs.failed_connections

\* The aggregator takes a tick and scans the connection table.
TickTaken == pc = "select" /\ tickA /\ ~tickA'

\* The table without the entries with current_tick > tick_first_packet + 20.
FreshPart ==
    Restrict(connectionMap,
             {k \in DOMAIN connectionMap :
                 currentTickerClock <= connectionMap[k].tickerClockFirstPacket + 20})

TickEnds == pc = "emit" /\ pc' = "select"

\* C15: if the Inc of triple k in a tick has active_seconds = 1 and
\* active_failed_seconds = 0, then previous_failed_second[k] is false after
\* the tick, whatever it was before.
C15_CarryReset ==
    [][/\ emitted' # emitted =>
             LET e == emitted'[Len(emitted')]
             IN  (e.inc.ActiveSeconds = 1 /\ e.inc.ActiveFailedSeconds = 0)
                 => previousFailedSecond'[IncTriple(e.inc)] = FALSE
       /\ TickEnds =>
             \A i \in TickIncs :
                (emitted[i].inc.ActiveSeconds = 1 /\ emitted[i].inc.ActiveFailedSeconds = 0)
                => previousFailedSecond'[IncTriple(emitted[i].inc)] = FALSE]_vars

\* C15 witness: a triple had a failed second, and a later tick in which it is
\* active without a failure has ended with its carry reset.
C15_Witness ==
    /\ pc = "select"
    /\ \E i, j \in DOMAIN emitted :
          /\ i < j
          /\ IncTriple(emitted[i].inc) = IncTriple(emitted[j].inc)
          /\ emitted[i].inc.FailedSeconds = 1
          /\ emitted[j].inc.ActiveSeconds = 1 /\ emitted[j].inc.ActiveFailedSeconds = 0
          /\ emitted[j].clock = emitted[i].clock + 1
          /\ currentTickerClock = emitted[j].clock + 1
          /\ previousFailedSecond[IncTriple(emitted[j].inc)] = FALSE

\* The comma-delimited substrings of s: what lies between two neighbouring
\* delimiters, a delimiter being a comma or an end of the string.
Delimiter(s, i) == i = 0 \/ i = Len(s) + 1 \/ s[i] = ","

Fields(s) ==
    {SubSeq(s, i + 1, j - 1) :
        <<i, j>> \in {p \in (0..Len(s)) \X (1..(Len(s) + 1)) :
                        /\ p[1] < p[2]
                        /\ Delimiter(s, p[1]) /\ Delimiter(s, p[2])
                        /\ \A x \in (p[1] + 1)..(p[2] - 1) : s[x] # ","}}

AsSetCalled == callArgs \in [list : Strings] /\ callResult # <<>>

\* C16: the key set of AsSet(list) is the set of the comma-delimited
\* substrings of list, the empty substring included: AsSet("") = {""},
\* AsSet("a,,b") = {"a", "", "b"}; equal substrings are one member.
C16_AsSetFields ==
    AsSetCalled =>
       /\ callResult.r = Fields(callArgs.list)
       /\ callArgs.list = <<>> => callResult.r = {<<>>}
       /\ callArgs.list = <<"a", ",", ",", "b">> => callResult.r = {<<"a">>, <<>>, <<"b">>}
       /\ callArgs.list = <<"a", ",", "a">> => callResult.r = {<<"a">>}

\* C16 witness: AsSet was called with "a,,b" and the empty string is a member.
C16_Witness ==
    /\ AsSetCalled
    /\ callArgs.list = <<"a", ",", ",", "b">>
    /\ <<>> \in callResult.r
    /\ Cardinality(callResult.r) = 3

\* The slot the tick reads, and the inner entries the tick removes from it.
DueSlot == (currentTickerClock + 1) % STATS_SECONDS_COUNT

RemovedFromSlot == {ik \in DOMAIN statsMap[DueSlot] : ik \notin DOMAIN statsMap'[DueSlot]}

\* C17: every inner entry getOldestStatsAndCleanup removes from the slot is
\* in the map it returns and is folded into exactly one sent Inc; after a
\* successful call the slot is empty; a call that returns an error has
\* removed nothing.
C17_StatsConsumedOnce ==
    /\ [][TickTaken =>
            /\ \A ik \in RemovedFromSlot :
                  /\ StatsConnKey(ik) \in DOMAIN statsValuesAtKey'
                  /\ statsValuesAtKey'[StatsConnKey(ik)] = statsMap[DueSlot][ik]
            /\ pc' # "select" => statsMap'[DueSlot] = EmptyMap
            /\ pc' = "select" => statsMap' = statsMap]_vars
    /\ [](TickOver =>
            \A ck \in DOMAIN statsValuesAtKey :
               Cardinality({i \in TickIncs : IncTriple(emitted[i].inc) = ck}) = 1)

\* C18: once ctx.Done() is closed, TrackConnections and TrackExecutionTime
\* each eventually return, when each task is scheduled fairly, whatever the
\* metrics sink does (unless the process has died of a panic before).
C18_ReturnAfterShutdown ==
    done ~> (~Alive \/ (pc = "returned" /\ pcE = "returned"))

\* The tick that is ready for TrackConnections, or that it is processing, was
\* produced after ctx.Done() was closed.
LateTickAtHand == lateTick /\ (tickA \/ pc = "emit")

\* C19: a tick that became ready after ctx.Done() was closed is never
\* processed by TrackConnections: it deletes no connection, sends no Inc and
\* does not advance the ticker clock for it.
C19_NoTickAfterShutdown ==
    [][LateTickAtHand =>
          /\ pc' # "emit"
          /\ UNCHANGED <<deletedLog, emitted, currentTickerClock, tickerClockMap>>]_vars

\* The Inc the folding rule gives for the last triple sent, had the carried
\* flag of the triple been prev.
RefoldLast(prev) ==
    LET sni == IncTriple(emitted'[Len(emitted')].inc)
        completedConnections ==
            IF sni \in DOMAIN statsValuesAtKey THEN statsValuesAtKey[sni] ELSE <<0, 0>>
        keys == SeqOf(staleConnections(sni))
        stale == [i \in 1..Len(keys) |-> oldConnections[keys[i]]]
    IN  accountForConnections(snis, now, sni, prev, stale,
                              completedConnections[1], completedConnections[2]).inc

====
